---- MODULE Spec2Model ----
(***************************************************************************)
(* emojistealer: instance-type detection, emoji normalisation, the         *)
(* interactive selection loop and the download loop, as one state machine. *)
(* Python strings are TLA+ strings; None is the sentinel None below.       *)
(***************************************************************************)
EXTENDS Integers, Sequences, FiniteSets, TLC

VARIABLES
    pc,          \* position of the program (__main__.py)
    err,         \* the uncaught exception that ended the run at pc ("" while none)
    url,         \* args.url, the instance URL given on the command line
    base_url,    \* create_for_url: _url, the normalised URL
    ti,          \* create_for_url: index of the candidate being tried
    probes,      \* create_for_url: the answers its GET requests got, in order
    instance,    \* the Instance object: [type, url, software]
    all_emoji,   \* instance.all_emoji, the normalised catalog
    selected,    \* the selection dict, in insertion order: <<[key, val], ...>>
    query,       \* the tokens of the line last read, until the next prompt
    prev,        \* `selected` as it was when that line was read
    warnings,    \* logger.warn calls made while processing that line
    yn,          \* the answer to the confirmation prompt
    existing,    \* shortcodes whose target file exists in the output directory
    idx,         \* download loop: number of selected emoji already visited
    packs,       \* download loop: the manifests accumulated, <<[key, val |-> [files, pack]], ...>>
    downloaded,  \* download loop: shortcodes request_download was called for
    written,     \* manifests written: the keys of packs, in writing order
    fetched,     \* instance.all_emoji: the answers its GET requests got, in order
    cache,       \* instance.__dict__["all_emoji"], as cached_property keeps it: [set, list]
    accesses     \* number of reads of instance.all_emoji so far

vars == <<pc, err, url, base_url, ti, probes, instance, all_emoji, selected, query, prev,
          warnings, yn, existing, idx, packs, downloaded, written, fetched, cache,
          accesses>>

None == "<None>"

-----------------------------------------------------------------------------
(* Python string helpers *)

Char(s, i) == SubSeq(s, i, i)

StartsWith(s, p) == Len(s) >= Len(p) /\ SubSeq(s, 1, Len(p)) = p

Drop(s, n) == SubSeq(s, n + 1, Len(s))

MinOf(S) == CHOOSE x \in S : \A y \in S : x <= y

MaxOf(S) == CHOOSE x \in S : \A y \in S : x >= y

\* s.find over a set of characters: the first index holding one of C, 0 if none
FindAny(s, C) ==
    LET I == {i \in 1..Len(s) : Char(s, i) \in C}
    IN  IF I = {} THEN 0 ELSE MinOf(I)

\* s.rfind over a set of characters: the last index holding one of C, 0 if none
RFindAny(s, C) ==
    LET I == {i \in 1..Len(s) : Char(s, i) \in C}
    IN  IF I = {} THEN 0 ELSE MaxOf(I)

-----------------------------------------------------------------------------
(* urllib.parse.urlparse, as far as get_base_url reads it *)

Letters == {"a", "b", "c", "d", "e", "f", "g", "h", "i", "j", "k", "l", "m",
            "n", "o", "p", "q", "r", "s", "t", "u", "v", "w", "x", "y", "z"}

SchemeChars == Letters \cup {"0", "1", "2", "3", "4", "5", "6", "7", "8", "9",
                             "+", "-", "."}

\* the scheme, when the text before the first ":" (at i) is a scheme
SplitScheme(u, i) ==
    IF /\ i > 1
       /\ Char(u, 1) \in Letters
       /\ \A k \in 1..(i - 1) : Char(u, k) \in SchemeChars
    THEN [scheme |-> SubSeq(u, 1, i - 1), rest |-> Drop(u, i)]
    ELSE [scheme |-> "", rest |-> u]

\* the authority of "//authority..." ends at d, the first of "/", "?", "#"
CutNetloc(scheme, after, d) ==
    IF d = 0 THEN [scheme |-> scheme, netloc |-> after, tail |-> ""]
    ELSE [scheme |-> scheme, netloc |-> SubSeq(after, 1, d - 1),
          tail |-> Drop(after, d - 1)]

SplitNetloc(s) ==
    IF StartsWith(s.rest, "//")
    THEN CutNetloc(s.scheme, Drop(s.rest, 2), FindAny(Drop(s.rest, 2), {"/", "?", "#"}))
    ELSE [scheme |-> s.scheme, netloc |-> "", tail |-> s.rest]

\* the path ends at q, the first of "?", "#"
CutPath(n, q) ==
    [scheme |-> n.scheme, netloc |-> n.netloc,
     path |-> IF q = 0 THEN n.tail ELSE SubSeq(n.tail, 1, q - 1)]

SplitPath(n) == CutPath(n, FindAny(n.tail, {"?", "#"}))

urlparse(u) == SplitPath(SplitNetloc(SplitScheme(u, FindAny(u, {":"}))))

\* str.strip()
Strip(p, ns) == IF ns = {} THEN "" ELSE SubSeq(p, MinOf(ns), MaxOf(ns))

\* s.split("/")[0]
UpTo(st, k) == IF k = 0 THEN st ELSE SubSeq(st, 1, k - 1)

FirstPart(st) == UpTo(st, FindAny(st, {"/"}))

\* url_parsed.path.strip().split("/")[0]
FirstSegment(p) == FirstPart(Strip(p, {i \in 1..Len(p) : Char(p, i) # " "}))

\* get_base_url, lines 23-36, on the parsed URL
BaseUrlOf(p) ==
    IF p.scheme # "" /\ p.scheme \notin {"http", "https"}
    THEN [exc |-> "ValueError: Not an HTTP/HTTPS URL", value |-> ""]
    ELSE IF p.netloc # ""
    THEN [exc |-> "",
          value |-> (IF p.scheme # "" THEN p.scheme ELSE "https") \o "://" \o p.netloc]
    ELSE IF p.path # ""
    THEN [exc |-> "",
          value |-> (IF p.scheme # "" THEN p.scheme ELSE "https") \o "://"
                    \o FirstSegment(p.path)]
    ELSE [exc |-> "ValueError: Malformed URL", value |-> ""]

\* get_base_url: [exc, value]; exc is "" when it returns "scheme://domain"
get_base_url(u) == BaseUrlOf(urlparse(u))

\* urllib.parse.urljoin of a base "scheme://host" with a reference
urljoin(base, ref) ==
    IF StartsWith(ref, "http://") \/ StartsWith(ref, "https://") THEN ref
    ELSE IF ref = "" THEN base
    ELSE IF StartsWith(ref, "/") THEN base \o ref
    ELSE base \o "/" \o ref

-----------------------------------------------------------------------------
(* request.py: a response is [conn, status, json]; conn = TRUE is a          *)
(* connection error raised by the session itself (no response at all).      *)

\* request_get: [exc, code, value]; exc is "" when the call returns
request_get(resp) ==
    IF resp.conn
    THEN [exc |-> "ConnectionError", code |-> 0, value |-> None]
    ELSE IF resp.status # 200
    THEN [exc |-> "RequestError", code |-> resp.status, value |-> None]
    ELSE [exc |-> "", code |-> 200, value |-> resp.json]

\* request_download: the exception it leaves with ("" when the file is written).
\* Its handler reads e.status_code, which requests' HTTPError does not have.
request_download(resp) ==
    IF resp.conn THEN "ConnectionError"
    ELSE IF resp.status >= 400 THEN "AttributeError"
    ELSE ""

-----------------------------------------------------------------------------
(* GET /api/v1/instance: the JSON objects a server may answer with *)

PlainBody ==
    [pleroma |-> FALSE, metadata |-> FALSE, features |-> {}]

PleromaNoMetaBody ==
    [pleroma |-> TRUE, metadata |-> FALSE, features |-> {}]

PleromaBody ==
    [pleroma |-> TRUE, metadata |-> TRUE, features |-> {"pleroma_api"}]

AkkomaBody ==
    [pleroma |-> TRUE, metadata |-> TRUE, features |-> {"pleroma_api", "akkoma_api"}]

InstanceBodies == {PlainBody, PleromaNoMetaBody, PleromaBody, AkkomaBody}

ErrorStatuses == {403, 404, 500}

InstanceResponses ==
    {[conn |-> FALSE, status |-> 200, json |-> b] : b \in InstanceBodies}
    \cup {[conn |-> FALSE, status |-> c, json |-> PlainBody] : c \in ErrorStatuses}
    \cup {[conn |-> TRUE, status |-> 0, json |-> PlainBody]}

-----------------------------------------------------------------------------
(* instance.py: the candidates and their probes; a probe is                  *)
(* [exc, result, sent], sent telling whether its request was made          *)

\* a walk that tries Misskey before Pleroma
instance_types_MisskeyFirst == <<"Misskey", "Pleroma", "Mastodon">>

instance_types == <<"Pleroma", "Misskey", "Mastodon">>

InstanceMastodon_matches_url == [exc |-> "", result |-> TRUE, sent |-> FALSE]

\* lines 154-160, given what get_base_url and request_get gave
PleromaMatch(b, r) ==
    IF b.exc # "" THEN [exc |-> b.exc, result |-> FALSE, sent |-> FALSE]
    ELSE IF r.exc = "RequestError" THEN [exc |-> "", result |-> FALSE, sent |-> TRUE]
    ELSE IF r.exc # "" THEN [exc |-> r.exc, result |-> FALSE, sent |-> TRUE]
    ELSE [exc |-> "", result |-> r.value.pleroma, sent |-> TRUE]

InstancePleroma_matches_url(u, resp) ==
    PleromaMatch(get_base_url(u), request_get(resp))

\* lines 230-239, given what get_base_url and request_get gave
MisskeyMatch(b, r) ==
    IF b.exc # "" THEN [exc |-> b.exc, result |-> FALSE, sent |-> FALSE]
    ELSE IF r.exc = "RequestError" THEN [exc |-> "", result |-> r.code = 404, sent |-> TRUE]
    ELSE IF r.exc # "" THEN [exc |-> r.exc, result |-> FALSE, sent |-> TRUE]
    ELSE [exc |-> "", result |-> FALSE, sent |-> TRUE]

InstanceMisskey_matches_url(u, resp) ==
    MisskeyMatch(get_base_url(u), request_get(resp))

matches_url(type, u, resp) ==
    CASE type = "Pleroma" -> InstancePleroma_matches_url(u, resp)
      [] type = "Misskey" -> InstanceMisskey_matches_url(u, resp)
      [] OTHER            -> InstanceMastodon_matches_url

\* a constructor that never looks for the akkoma_api feature
PleromaInit_IgnoresMarker(r) ==
    IF r.exc = "RequestError"
    THEN [exc |-> "UnboundLocalError", software |-> "Pleroma"]
    ELSE IF r.exc # "" THEN [exc |-> r.exc, software |-> "Pleroma"]
    ELSE [exc |-> "", software |-> "Pleroma"]

\* InstancePleroma.__init__, lines 133-145, given what request_get gave:
\* [exc, software].  After a RequestError is_akkoma was never assigned.
PleromaInit(r) ==
    IF r.exc = "RequestError"
    THEN [exc |-> "UnboundLocalError", software |-> "Pleroma"]
    ELSE IF r.exc # "" THEN [exc |-> r.exc, software |-> "Pleroma"]
    ELSE IF ~r.value.pleroma THEN [exc |-> "", software |-> "Pleroma"]
    ELSE IF r.value.metadata /\ "akkoma_api" \in r.value.features
    THEN [exc |-> "", software |-> "Akkoma"]
    ELSE [exc |-> "", software |-> "Pleroma"]

InstancePleroma_init(resp) == PleromaInit(request_get(resp))

NoInstance == [type |-> "", url |-> "", software |-> ""]

-----------------------------------------------------------------------------
(* emoji.py and the three all_emoji normalisers.  A fetch is [exc, list]:   *)
(* exc names the exception that leaves all_emoji, "" when it returns.       *)

Emoji(shortcode, category, original_url, static_url) ==
    [shortcode |-> shortcode, category |-> category,
     original_url |-> original_url, static_url |-> static_url]

\* a key the JSON entry does not have
Absent == "<absent>"

\* dict.get(key, "") of an entry field
Get(v) == IF v = Absent THEN "" ELSE v

\* Python truthiness of a str-or-None value
Truthy(v) == v \notin {"", None, Absent}

\* InstancePleroma._category_fixup
category_fixup(category) ==
    IF ~Truthy(category) THEN None
    ELSE IF StartsWith(category, "pack:") THEN Drop(category, 5)
    ELSE category

\* InstanceMastodon.all_emoji, the loop over the listing
RECURSIVE MastodonLoop(_, _)
MastodonLoop(req, emoji_list) ==
    IF req = <<>> THEN [exc |-> "", list |-> emoji_list]
    ELSE LET emoji == Head(req)
         IN  IF ~Truthy(Get(emoji.shortcode))
             THEN MastodonLoop(Tail(req), emoji_list)
             ELSE IF ~Truthy(Get(emoji.url)) /\ ~Truthy(Get(emoji.static_url))
             THEN MastodonLoop(Tail(req), emoji_list)
             ELSE MastodonLoop(Tail(req), Append(emoji_list,
                      Emoji(emoji.shortcode,
                            category_fixup(IF emoji.category = Absent
                                           THEN None ELSE emoji.category),
                            Get(emoji.url), Get(emoji.static_url))))

InstanceMastodon_all_emoji(resp) ==
    LET r == request_get(resp)
    IN  IF r.exc = "RequestError" THEN [exc |-> "", list |-> <<>>]
        ELSE IF r.exc # "" THEN [exc |-> r.exc, list |-> <<>>]
        ELSE MastodonLoop(r.value, <<>>)

\* the first tag starting with "pack:", stripped; None when there is none
RECURSIVE PackTag(_)
PackTag(tags) ==
    IF tags = <<>> THEN None
    ELSE IF StartsWith(Head(tags), "pack:") THEN Drop(Head(tags), 5)
    ELSE PackTag(Tail(tags))

\* the condition of instance.py line 191, as Python parses it
NeedsJoin(u) == ~StartsWith(u, "http://") \/ StartsWith(u, "https://")

\* InstancePleroma.all_emoji, the loop over the mapping's items
RECURSIVE PleromaLoop(_, _, _)
PleromaLoop(req, base, emoji_list) ==
    IF req = <<>> THEN [exc |-> "", list |-> emoji_list]
    ELSE LET emoji == Head(req)
         IN  IF ~Truthy(Get(emoji.image_url))
             THEN PleromaLoop(Tail(req), base, emoji_list)
             ELSE IF ~emoji.has_tags
             THEN [exc |-> "TypeError", list |-> emoji_list]
             ELSE LET u == IF NeedsJoin(emoji.image_url)
                           THEN urljoin(base, emoji.image_url)
                           ELSE emoji.image_url
                  IN  PleromaLoop(Tail(req), base, Append(emoji_list,
                          Emoji(emoji.shortcode, PackTag(emoji.tags), u, u)))

\* On RequestError the fallback calls InstanceMastodon.all_emoji, which is a
\* cached_property object and not callable.
InstancePleroma_all_emoji(resp, base) ==
    LET r == request_get(resp)
    IN  IF r.exc = "RequestError" THEN [exc |-> "TypeError", list |-> <<>>]
        ELSE IF r.exc # "" THEN [exc |-> r.exc, list |-> <<>>]
        ELSE PleromaLoop(r.value, base, <<>>)

\* InstanceMisskey.all_emoji, the loop over req["emojis"]
RECURSIVE MisskeyLoop(_, _)
MisskeyLoop(req, emoji_list) ==
    IF req = <<>> THEN [exc |-> "", list |-> emoji_list]
    ELSE LET emoji == Head(req)
         IN  IF ~Truthy(Get(emoji.name))
             THEN MisskeyLoop(Tail(req), emoji_list)
             ELSE IF ~Truthy(Get(emoji.url))
             THEN [exc |-> "KeyError", list |-> emoji_list]
             ELSE IF emoji.category = Absent
             THEN [exc |-> "KeyError", list |-> emoji_list]
             ELSE MisskeyLoop(Tail(req), Append(emoji_list,
                      Emoji(emoji.name,
                            IF Truthy(emoji.category) THEN emoji.category ELSE None,
                            emoji.url, emoji.url)))

InstanceMisskey_all_emoji(resp) ==
    LET r == request_get(resp)
    IN  IF r.exc = "RequestError" THEN [exc |-> "", list |-> <<>>]
        ELSE IF r.exc # "" THEN [exc |-> r.exc, list |-> <<>>]
        ELSE MisskeyLoop(r.value, <<>>)

fetch_all_emoji(inst, resp) ==
    CASE inst.type = "Pleroma" -> InstancePleroma_all_emoji(resp, inst.url)
      [] inst.type = "Misskey" -> InstanceMisskey_all_emoji(resp)
      [] OTHER                 -> InstanceMastodon_all_emoji(resp)

\* the instance before all_emoji was ever computed
NoCache == [set |-> FALSE, list |-> <<>>]

\* functools.cached_property: the value kept in the instance is returned
\* without calling the method; otherwise the method is called (f is what it
\* gave) and its result kept, unless it raised: [exc, list, cache, fetch]
CachedProperty(c, f) ==
    IF c.set THEN [exc |-> "", list |-> c.list, cache |-> c, fetch |-> FALSE]
    ELSE IF f.exc # "" THEN [exc |-> f.exc, list |-> <<>>, cache |-> c, fetch |-> TRUE]
    ELSE [exc |-> "", list |-> f.list,
          cache |-> [set |-> TRUE, list |-> f.list], fetch |-> TRUE]

\* a property that computes the list on every read
instance_all_emoji_NoCache(c, inst, resp) ==
    CachedProperty(NoCache, fetch_all_emoji(inst, resp))

\* a read of instance.all_emoji
instance_all_emoji(c, inst, resp) ==
    CachedProperty(c, fetch_all_emoji(inst, resp))

-----------------------------------------------------------------------------
(* The emoji listings a server may answer with *)

MFoo == [shortcode |-> "foo", url |-> "https://cdn.example/foo.png",
         static_url |-> "https://cdn.example/foo_static.png",
         category |-> "stickers"]

MBar == [shortcode |-> "bar", url |-> Absent,
         static_url |-> "https://cdn.example/bar.png",
         category |-> "pack:stickers"]

MBaz == [shortcode |-> "baz", url |-> "https://cdn.example/baz.gif",
         static_url |-> "", category |-> None]

MNoUrl == [shortcode |-> "qux", url |-> "", static_url |-> Absent,
           category |-> "stickers"]

MNoShortcode == [shortcode |-> Absent, url |-> "https://cdn.example/x.png",
                 static_url |-> "", category |-> Absent]

MastodonListings ==
    {<<>>, <<MFoo, MBar, MBaz>>, <<MNoShortcode, MFoo, MNoUrl, MBaz>>}

PFoo == [shortcode |-> "foo", image_url |-> "/emoji/stickers/foo.png",
         has_tags |-> TRUE, tags |-> <<"foo", "pack:stickers">>]

PBar == [shortcode |-> "bar", image_url |-> "https://cdn.example/bar.png",
         has_tags |-> TRUE, tags |-> <<"pack:stickers", "pack:other">>]

PBaz == [shortcode |-> "baz", image_url |-> "http://cdn.example/baz.gif",
         has_tags |-> TRUE, tags |-> <<"Custom">>]

PNoUrl == [shortcode |-> "qux", image_url |-> Absent,
           has_tags |-> TRUE, tags |-> <<>>]

PNoTags == [shortcode |-> "quux", image_url |-> "/emoji/quux.png",
            has_tags |-> FALSE, tags |-> <<>>]

\* the mapping's key is the empty string
PEmptyKey == [shortcode |-> "", image_url |-> "/emoji/blank.png",
              has_tags |-> TRUE, tags |-> <<>>]

PleromaListings ==
    {<<>>, <<PFoo, PBar, PBaz>>, <<PNoUrl, PFoo, PBaz>>, <<PFoo, PNoTags>>,
     <<PFoo, PEmptyKey>>}

KFoo == [name |-> "foo", url |-> "https://cdn.example/foo.png",
         category |-> "stickers"]

KBar == [name |-> "bar", url |-> "https://cdn.example/bar.png",
         category |-> "stickers"]

KBaz == [name |-> "baz", url |-> "https://cdn.example/baz.gif",
         category |-> None]

KNoName == [name |-> Absent, url |-> "https://cdn.example/x.png",
            category |-> None]

KNoUrl == [name |-> "qux", url |-> Absent, category |-> None]

KNoCategory == [name |-> "quux", url |-> "https://cdn.example/quux.png",
                category |-> Absent]

MisskeyListings ==
    {<<>>, <<KFoo, KBar, KBaz>>, <<KNoName, KFoo, KBaz>>, <<KFoo, KNoUrl>>,
     <<KFoo, KNoCategory>>}

Listings(type) ==
    CASE type = "Pleroma" -> PleromaListings
      [] type = "Misskey" -> MisskeyListings
      [] OTHER            -> MastodonListings

EmojiResponses(type) ==
    {[conn |-> FALSE, status |-> 200, json |-> l] : l \in Listings(type)}
    \cup {[conn |-> FALSE, status |-> c, json |-> <<>>] : c \in ErrorStatuses}
    \cup {[conn |-> TRUE, status |-> 0, json |-> <<>>]}

-----------------------------------------------------------------------------
(* Python dicts, in insertion order: sequences of [key, val] *)

Keys(d) == [i \in 1..Len(d) |-> d[i].key]

KeySet(d) == {d[i].key : i \in 1..Len(d)}

HasKey(d, k) == k \in KeySet(d)

DictGet(d, k) == d[CHOOSE i \in 1..Len(d) : d[i].key = k].val

\* d[k] = v: an existing key keeps its place
DictSet(d, k, v) ==
    IF HasKey(d, k)
    THEN [i \in 1..Len(d) |-> IF d[i].key = k THEN [key |-> k, val |-> v] ELSE d[i]]
    ELSE Append(d, [key |-> k, val |-> v])

DictDel(d, k) == SelectSeq(d, LAMBDA kv : kv.key # k)

\* dict([(e.shortcode, e) for e in emoji])
RECURSIVE DictOfEmoji(_, _)
DictOfEmoji(emoji, d) ==
    IF emoji = <<>> THEN d
    ELSE DictOfEmoji(Tail(emoji), DictSet(d, Head(emoji).shortcode, Head(emoji)))

-----------------------------------------------------------------------------
(* __main__.py: the catalog's derived views (lines 47-61) *)

all_emoji_shortcodes(catalog) == DictOfEmoji(catalog, <<>>)

CategoryKey(e) == IF Truthy(e.category) THEN e.category ELSE "(uncategorized)"

emoji_categorized(catalog) ==
    [c \in {CategoryKey(catalog[i]) : i \in 1..Len(catalog)} |->
        SelectSeq(catalog, LAMBDA e : CategoryKey(e) = c)]

-----------------------------------------------------------------------------
(* __main__.py: one line of the selection loop (lines 84-143).              *)
(* A processing state is [sel, warns, exc, next].                           *)

ReservedWords == <<"all", "none", "confirm", "quit">>

IsReserved(t) == \E i \in 1..Len(ReservedWords) : ReservedWords[i] = t

\* lines 89-95: the query without the reserved words
StripReserved(q) == SelectSeq(q, LAMBDA t : ~IsReserved(t))

\* lines 89-93: one warning for each reserved word the query holds
StripWarnings(q) ==
    Cardinality({i \in 1..Len(ReservedWords) :
                    \E k \in 1..Len(q) : q[k] = ReservedWords[i]})

\* lines 99-105: del selected[e.shortcode] for every emoji of the pack
RECURSIVE DelAll(_, _)
DelAll(sel, emoji) ==
    IF emoji = <<>> THEN sel
    ELSE DelAll(DictDel(sel, Head(emoji).shortcode), Tail(emoji))

\* lines 114-115 and 135-136: selected[e.shortcode] = e for every emoji of the pack
RECURSIVE SetAll(_, _)
SetAll(sel, emoji) ==
    IF emoji = <<>> THEN sel
    ELSE SetAll(DictSet(sel, Head(emoji).shortcode, Head(emoji)), Tail(emoji))

\* an unselect that reads emoji:<name> as <name>, as the selecting branch does
UnselectToken_StripsPrefix(st, shortcode, catalog) ==
    IF StartsWith(shortcode, "pack:")
    THEN IF Drop(shortcode, 5) \in DOMAIN emoji_categorized(catalog)
         THEN [st EXCEPT !.sel = DelAll(st.sel, emoji_categorized(catalog)[Drop(shortcode, 5)])]
         ELSE [st EXCEPT !.exc = "KeyError"]
    ELSE IF HasKey(st.sel, IF StartsWith(shortcode, "emoji:")
                           THEN Drop(shortcode, 6) ELSE shortcode)
         THEN [st EXCEPT !.sel = DictDel(st.sel, IF StartsWith(shortcode, "emoji:")
                                                 THEN Drop(shortcode, 6) ELSE shortcode)]
         ELSE [st EXCEPT !.warns = st.warns + 1]

\* lines 98-110: one token of an `unselect` line
UnselectToken(st, shortcode, catalog) ==
    IF StartsWith(shortcode, "pack:")
    THEN IF Drop(shortcode, 5) \in DOMAIN emoji_categorized(catalog)
         THEN [st EXCEPT !.sel = DelAll(st.sel, emoji_categorized(catalog)[Drop(shortcode, 5)])]
         ELSE [st EXCEPT !.exc = "KeyError"]
    ELSE IF HasKey(st.sel, shortcode)
         THEN [st EXCEPT !.sel = DictDel(st.sel, shortcode)]
         ELSE [st EXCEPT !.warns = st.warns + 1]

\* a selector that takes any shortcode, in the catalog or not
SelectToken_Unchecked(st, token, catalog) ==
    IF StartsWith(token, "pack:")
    THEN IF Drop(token, 5) \in DOMAIN emoji_categorized(catalog)
         THEN [st EXCEPT !.sel = SetAll(st.sel, emoji_categorized(catalog)[Drop(token, 5)])]
         ELSE [st EXCEPT !.exc = "KeyError"]
    ELSE LET shortcode == IF StartsWith(token, "emoji:") THEN Drop(token, 6) ELSE token
         IN  [st EXCEPT !.sel = DictSet(st.sel, shortcode,
                                        Emoji(shortcode, None, "", ""))]

\* lines 113-122 and 133-143: one selector token
SelectToken(st, token, catalog) ==
    IF StartsWith(token, "pack:")
    THEN IF Drop(token, 5) \in DOMAIN emoji_categorized(catalog)
         THEN [st EXCEPT !.sel = SetAll(st.sel, emoji_categorized(catalog)[Drop(token, 5)])]
         ELSE [st EXCEPT !.exc = "KeyError"]
    ELSE LET shortcode == IF StartsWith(token, "emoji:") THEN Drop(token, 6) ELSE token
         IN  IF HasKey(all_emoji_shortcodes(catalog), shortcode)
             THEN [st EXCEPT !.sel = DictSet(st.sel, shortcode,
                                         DictGet(all_emoji_shortcodes(catalog), shortcode))]
             ELSE [st EXCEPT !.warns = st.warns + 1]

\* lines 97 and 112: the for loops; an exception ends the loop
RECURSIVE TokenLoop(_, _, _, _)
TokenLoop(st, tokens, catalog, unselect) ==
    IF tokens = <<>> \/ st.exc # "" THEN st
    ELSE TokenLoop(IF unselect THEN UnselectToken(st, Head(tokens), catalog)
                   ELSE SelectToken(st, Head(tokens), catalog),
                   Tail(tokens), catalog, unselect)

\* lines 88-122: a line of several tokens
MultiToken(q, sel, catalog) ==
    LET stripped == StripReserved(q)
        st       == [sel |-> sel, warns |-> StripWarnings(q), exc |-> "", next |-> "report"]
    IN  IF stripped = <<>> THEN [st EXCEPT !.exc = "IndexError"]
        ELSE IF stripped[1] = "unselect"
        THEN TokenLoop(st, Tail(stripped), catalog, TRUE)
        ELSE TokenLoop(st, stripped, catalog, FALSE)

\* a single token always read as a selector, the commands included
SingleToken_NoCommands(q, sel, catalog) ==
    SelectToken([sel |-> sel, warns |-> 0, exc |-> "", next |-> "report"],
                q[1], catalog)

\* lines 123-143: a line of one token
SingleToken(q, sel, catalog) ==
    LET st == [sel |-> sel, warns |-> 0, exc |-> "", next |-> "report"]
    IN  CASE q[1] = "confirm" -> [st EXCEPT !.next = "confirm"]
          [] q[1] = "all"     -> [st EXCEPT !.sel = DictOfEmoji(catalog, <<>>)]
          [] q[1] = "none"    -> [st EXCEPT !.sel = <<>>]
          [] q[1] = "quit"    -> [st EXCEPT !.next = "exit0"]
          [] OTHER            -> SelectToken(st, q[1], catalog)

process_line(q, sel, catalog) ==
    IF Len(q) > 1 THEN MultiToken(q, sel, catalog)
    ELSE SingleToken(q, sel, catalog)

\* a prompt that also takes the word "yes"
IsYes_AcceptsWord(answer) == answer = "" \/ answer \in {"y", "Y", "yes"}

\* line 150
IsYes(answer) == answer = "" \/ answer \in {"y", "Y"}

-----------------------------------------------------------------------------
(* __main__.py: one pass of the download loop (lines 162-206) *)

\* os.path.splitext(p)[1]
splitext(p) ==
    LET sep  == RFindAny(p, {"/"})
        dot  == RFindAny(p, {"."})
        lead == {i \in (sep + 1)..Len(p) : Char(p, i) # "."}
    IN  IF dot > sep /\ lead # {} /\ MinOf(lead) < dot
        THEN Drop(p, dot - 1)
        ELSE ""

\* lines 167-170
download_url(emoji, original) ==
    IF original
    THEN IF Truthy(emoji.original_url) THEN emoji.original_url ELSE emoji.static_url
    ELSE IF Truthy(emoji.static_url) THEN emoji.static_url ELSE emoji.original_url

\* line 172
emoji_filename(emoji, original) ==
    emoji.shortcode \o splitext(download_url(emoji, original))

\* lines 179-191: [exc, packs].  The first emoji of a category reads
\* emoji.pack, an attribute the Emoji dataclass does not have, after line 182
\* has stored the empty manifest.
update_packs(pk, emoji, original) ==
    IF HasKey(pk, emoji.category)
    THEN [exc |-> "",
          packs |-> DictSet(pk, emoji.category,
                        [files |-> DictSet(DictGet(pk, emoji.category).files,
                                           emoji.shortcode,
                                           emoji_filename(emoji, original)),
                         pack  |-> DictGet(pk, emoji.category).pack])]
    ELSE [exc |-> "AttributeError",
          packs |-> DictSet(pk, emoji.category, [files |-> <<>>, pack |-> None])]

\* lines 162-206 for one emoji: [exc, packs, downloaded]
download_one(pk, done, emoji, original, exists, resp) ==
    LET u == update_packs(pk, emoji, original)
    IN  IF u.exc # ""
        THEN [exc |-> u.exc, packs |-> u.packs, downloaded |-> done]
        ELSE IF emoji.shortcode \in exists
        THEN [exc |-> "", packs |-> u.packs, downloaded |-> done]
        ELSE IF request_download(resp) = "RequestError"
        THEN [exc |-> "", packs |-> u.packs,
              downloaded |-> Append(done, emoji.shortcode)]
        ELSE [exc |-> request_download(resp), packs |-> u.packs,
              downloaded |-> Append(done, emoji.shortcode)]

\* lines 209-211: the manifests written before the first key that is None
\* (os.path.join raises TypeError on it): [exc, written]
RECURSIVE write_packs(_, _)
write_packs(pk, done) ==
    IF pk = <<>> THEN [exc |-> "", written |-> done]
    ELSE IF Head(pk).key = None THEN [exc |-> "TypeError", written |-> done]
    ELSE write_packs(Tail(pk), Append(done, Head(pk).key))

DownloadResponses ==
    {[conn |-> FALSE, status |-> c] : c \in {200} \cup ErrorStatuses}
    \cup {[conn |-> TRUE, status |-> 0]}

-----------------------------------------------------------------------------
(* Inputs *)

\* the command-line URLs tried
Urls == {"example.social/about", "ftp://example.social"}

\* the strings get_base_url is tried on: prefix, host part and rest
UrlPrefixes == {"", "//", "http://", "https://", "ftp://", "mailto:"}

UrlHosts == {"", "example.social", "example.social:8080", "user:pw@example.social"}

UrlRests == {"", "/", "/about", "?q=1", "#frag", "/a/b?x=1#y"}

UrlInputs == {p \o h \o r : p \in UrlPrefixes, h \in UrlHosts, r \in UrlRests}

Tokens == {"all", "none", "confirm", "quit", "unselect", "foo", "emoji:bar",
           "pack:stickers", "pack:nosuch", "nosuch"}

MaxTokens == 3

\* reads of instance.all_emoji tried on one instance
MaxAccesses == 3

\* _query.split(" ") is never empty
Lines == UNION {[1..n -> Tokens] : n \in 1..MaxTokens}

Answers == {"", "y", "Y", "yes"}

Shortcodes(d) == KeySet(d)

-----------------------------------------------------------------------------
(* The program *)

\* the program before its first statement, whatever the URL given
Started ==
    /\ pc = "start"
    /\ err = ""
    /\ base_url = ""
    /\ ti = 0
    /\ probes = <<>>
    /\ instance = NoInstance
    /\ all_emoji = <<>>
    /\ selected = <<>>
    /\ query = <<>>
    /\ prev = <<>>
    /\ warnings = 0
    /\ yn = ""
    /\ existing = {}
    /\ idx = 0
    /\ packs = <<>>
    /\ downloaded = <<>>
    /\ written = <<>>
    /\ fetched = <<>>
    /\ cache = NoCache
    /\ accesses = 0

Init == url \in Urls /\ Started

\* an uncaught exception ends the run where it is raised
Crash(e) == err' = e /\ pc' = pc

\* Instance.create_for_url, line 61
Normalized(b) ==
    IF b.exc # ""
    THEN Crash(b.exc) /\ UNCHANGED <<base_url, ti>>
    ELSE pc' = "classify" /\ base_url' = b.value /\ ti' = 1 /\ err' = err

Normalize ==
    /\ pc = "start" /\ err = ""
    /\ Normalized(get_base_url(url))
    /\ UNCHANGED <<url, probes, instance, all_emoji, selected, query, prev,
                   warnings, yn, existing, idx, packs, downloaded, written,
                   fetched, cache, accesses>>

\* Instance.create_for_url, lines 63-67: one turn of the loop; m is what the
\* probe gave, resp the answer to its request when it made one
Tried(m, resp) ==
    /\ probes' = IF m.sent THEN Append(probes, resp) ELSE probes
    /\ IF m.exc # "" THEN Crash(m.exc) /\ ti' = ti
       ELSE IF m.result THEN pc' = "construct" /\ ti' = ti /\ err' = err
       ELSE IF ti < Len(instance_types)
       THEN pc' = "classify" /\ ti' = ti + 1 /\ err' = err
       ELSE Crash("ValueError: Cannot identify instance type") /\ ti' = ti

TryCandidate ==
    /\ pc = "classify" /\ err = ""
    /\ \E resp \in InstanceResponses :
         Tried(matches_url(instance_types[ti], base_url, resp), resp)
    /\ UNCHANGED <<url, base_url, instance, all_emoji, selected, query, prev,
                   warnings, yn, existing, idx, packs, downloaded, written,
                   fetched, cache, accesses>>

\* Instance.create_for_url, line 65: instance_type(_url); b is what
\* Instance.__init__ got from get_base_url, p what InstancePleroma.__init__ did
Constructed(type, b, p, resp) ==
    IF b.exc # "" THEN Crash(b.exc) /\ UNCHANGED <<instance, probes>>
    ELSE IF type = "Pleroma"
    THEN /\ probes' = Append(probes, resp)
         /\ IF p.exc # "" THEN Crash(p.exc) /\ UNCHANGED instance
            ELSE /\ pc' = "classified"
                 /\ err' = err
                 /\ instance' = [type |-> type, url |-> b.value,
                                 software |-> p.software]
    ELSE /\ pc' = "classified"
         /\ err' = err
         /\ probes' = probes
         /\ instance' = [type |-> type, url |-> b.value, software |-> type]

Construct ==
    /\ pc = "construct" /\ err = ""
    /\ \E resp \in InstanceResponses :
         Constructed(instance_types[ti], get_base_url(base_url),
                     InstancePleroma_init(resp), resp)
    /\ UNCHANGED <<url, base_url, ti, all_emoji, selected, query, prev,
                   warnings, yn, existing, idx, packs, downloaded, written,
                   fetched, cache, accesses>>

\* __main__.py lines 46-53: instance.all_emoji is read; a is what the read
\* gave, resp the answer to the request it made
Fetched(a, resp) ==
    /\ cache' = a.cache
    /\ fetched' = IF a.fetch THEN Append(fetched, resp) ELSE fetched
    /\ IF a.exc # "" THEN Crash(a.exc) /\ UNCHANGED all_emoji
       ELSE IF a.list = <<>> THEN pc' = "exit1" /\ err' = err /\ UNCHANGED all_emoji
       ELSE pc' = "prompt" /\ err' = err /\ all_emoji' = a.list

Fetch ==
    /\ pc = "classified" /\ err = ""
    /\ \E resp \in EmojiResponses(instance.type) :
         Fetched(instance_all_emoji(cache, instance, resp), resp)
    /\ accesses' = accesses + 1
    /\ probes' = <<>>
    /\ ti' = 0
    /\ UNCHANGED <<url, base_url, instance, selected, query, prev,
                   warnings, yn, existing, idx, packs, downloaded, written>>

\* lines 83-143: a line is read, split and processed; r is what the
\* processing made of it
Processed(r) ==
    /\ selected' = r.sel
    /\ warnings' = r.warns
    /\ IF r.exc # "" THEN Crash(r.exc)
       ELSE pc' = r.next /\ err' = err

Line ==
    /\ pc = "prompt" /\ err = ""
    /\ \E line \in Lines :
         /\ query' = line
         /\ Processed(process_line(line, selected, all_emoji))
    /\ prev' = selected
    /\ UNCHANGED <<url, base_url, ti, probes, instance, all_emoji,
                   yn, existing, idx, packs, downloaded, written,
                   fetched, cache, accesses>>

\* line 145: the selection size is reported and the next line awaited
Report ==
    /\ pc = "report" /\ err = ""
    /\ pc' = "prompt"
    /\ query' = <<>>
    /\ prev' = <<>>
    /\ warnings' = 0
    /\ UNCHANGED <<err, url, base_url, ti, probes, instance, all_emoji, selected,
                   yn, existing, idx, packs, downloaded, written,
                   fetched, cache, accesses>>

\* lines 147-151: the confirmation prompt; the output directory is looked at
\* only by the download loop, so its content is drawn as the loop starts
Confirm ==
    /\ pc = "confirm" /\ err = ""
    /\ \E answer \in Answers :
         /\ yn' = answer
         /\ IF IsYes(answer)
            THEN pc' = "download" /\ existing' \in SUBSET Shortcodes(selected)
            ELSE pc' = "prompt" /\ existing' = existing
    /\ query' = <<>>
    /\ prev' = <<>>
    /\ UNCHANGED <<err, url, base_url, ti, probes, instance, all_emoji, selected,
                   warnings, idx, packs, downloaded, written,
                   fetched, cache, accesses>>

\* lines 162-206: one emoji of the download loop, d is what became of it
Visited(d) ==
    /\ packs' = d.packs
    /\ downloaded' = d.downloaded
    /\ IF d.exc # "" THEN Crash(d.exc) /\ idx' = idx
       ELSE pc' = pc /\ err' = err /\ idx' = idx + 1

DownloadStep ==
    /\ pc = "download" /\ err = ""
    /\ idx < Len(selected)
    /\ \E original \in BOOLEAN, resp \in DownloadResponses :
         Visited(download_one(packs, downloaded, selected[idx + 1].val,
                              original, existing, resp))
    /\ UNCHANGED <<url, base_url, ti, probes, instance, all_emoji, selected,
                   query, prev, warnings, yn, existing, written,
                   fetched, cache, accesses>>

\* lines 208-215: the manifests are written and the program ends
Wrote(w) ==
    /\ written' = w.written
    /\ IF w.exc # "" THEN Crash(w.exc)
       ELSE pc' = "exit0" /\ err' = err

WritePacks ==
    /\ pc = "download" /\ err = ""
    /\ idx = Len(selected)
    /\ Wrote(write_packs(packs, <<>>))
    /\ UNCHANGED <<url, base_url, ti, probes, instance, all_emoji, selected,
                   query, prev, warnings, yn, existing, idx, packs, downloaded,
                   fetched, cache, accesses>>

Next ==
    \/ Normalize
    \/ TryCandidate
    \/ Construct
    \/ Fetch
    \/ Line
    \/ Report
    \/ Confirm
    \/ DownloadStep
    \/ WritePacks

Spec == Init /\ [][Next]_vars

\* a read of instance.all_emoji that leaves the program where it is; a is
\* what the read gave, resp the answer to the request it made
Accessed(a, resp) ==
    /\ cache' = a.cache
    /\ fetched' = IF a.fetch THEN Append(fetched, resp) ELSE fetched
    /\ IF a.exc # "" THEN Crash(a.exc) /\ UNCHANGED all_emoji
       ELSE pc' = pc /\ err' = err /\ all_emoji' = a.list

Access ==
    /\ pc = "classified" /\ err = ""
    /\ accesses < MaxAccesses
    /\ \E resp \in EmojiResponses(instance.type) :
         Accessed(instance_all_emoji(cache, instance, resp), resp)
    /\ accesses' = accesses + 1
    /\ UNCHANGED <<url, base_url, ti, probes, instance, selected, query, prev,
                   warnings, yn, existing, idx, packs, downloaded, written>>

\* an instance is created and its all_emoji read again and again
NextAccess ==
    \/ Normalize
    \/ TryCandidate
    \/ Construct
    \/ Access

SpecAccess == Init /\ [][NextAccess]_vars

\* Instance.create_for_url alone, on every string of UrlInputs
InitUrl == url \in UrlInputs /\ Started

NextUrl ==
    \/ Normalize
    \/ TryCandidate
    \/ Construct

SpecUrl == InitUrl /\ [][NextUrl]_vars

-----------------------------------------------------------------------------
(* Classification *)

Ok200WithKey(resp) == ~resp.conn /\ resp.status = 200 /\ resp.json.pleroma

Is404(resp) == ~resp.conn /\ resp.status = 404

\* the family the claim assigns to the answers the probes got
FamilyOf(answers) ==
    IF Len(answers) >= 1 /\ Ok200WithKey(answers[1]) THEN "Pleroma"
    ELSE IF Len(answers) >= 2 /\ Is404(answers[2]) THEN "Misskey"
    ELSE "Mastodon"

\* C1: create_for_url walks Pleroma, Misskey, Mastodon and takes the first
\* that matches: the family chosen (and the instance returned) is Pleroma
\* when GET /api/v1/instance gave 200 with the key "pleroma", otherwise
\* Misskey when the request failed with 404, otherwise Mastodon; a server
\* giving every probe the same answer is classified by that answer alone;
\* and the walk never ends with "Cannot identify instance type".
C1_ClassificationOrder ==
    /\ err # "ValueError: Cannot identify instance type"
    /\ (pc = "construct" /\ err = "") =>
          /\ instance_types[ti] = FamilyOf(probes)
          /\ \A r \in InstanceResponses :
                (\A i \in 1..Len(probes) : probes[i] = r) =>
                   instance_types[ti] = (IF Ok200WithKey(r) THEN "Pleroma"
                                         ELSE IF Is404(r) THEN "Misskey"
                                         ELSE "Mastodon")
    /\ (pc = "classified" /\ err = "") =>
          /\ instance.type = FamilyOf(probes)
          /\ instance.software \in
                (IF instance.type = "Pleroma" THEN {"Pleroma", "Akkoma"}
                 ELSE {instance.type})

\* a server answering 404 was probed as Pleroma, then as Misskey, and
\* classified as Misskey
C1_Witness ==
    /\ pc = "classified"
    /\ err = ""
    /\ instance.type = "Misskey"
    /\ Len(probes) = 2
    /\ Is404(probes[1])
    /\ Is404(probes[2])

\* C2: a probe whose request fails, by an error status or by a connection
\* error, counts as "does not match": no exception leaves create_for_url and
\* the walk goes on to the next candidate.
C2_FailedProbeIsNoMatch ==
    (/\ pc = "classify"
     /\ probes # <<>>
     /\ (probes[Len(probes)].conn \/ probes[Len(probes)].status # 200))
    => (err = "" /\ ti = Len(probes) + 1)

-----------------------------------------------------------------------------
(* The selection loop.  query is non-empty exactly in the states that       *)
(* follow the processing of a line, where prev is the selection before it.  *)

Range(seq) == {seq[i] : i \in 1..Len(seq)}

\* the tokens of a line that are read as selectors
Selectors(q) == IF Len(q) = 1 THEN q ELSE StripReserved(q)

\* the line adds to the selection (it is no command and no unselect line)
IsSelectLine(q) ==
    /\ q # <<>>
    /\ Selectors(q) # <<>>
    /\ (Len(q) = 1 => ~IsReserved(q[1]))
    /\ (Len(q) > 1 => Selectors(q)[1] # "unselect")

\* the shortcode a selector token names
NameOf(token) == IF StartsWith(token, "emoji:") THEN Drop(token, 6) ELSE token

\* the token names a category or a shortcode of the catalog
Known(token, catalog) ==
    IF StartsWith(token, "pack:")
    THEN \E i \in 1..Len(catalog) : CategoryKey(catalog[i]) = Drop(token, 5)
    ELSE \E i \in 1..Len(catalog) : catalog[i].shortcode = NameOf(token)

\* C3: a line of several tokens, all of them reserved words, leaves
\* `selected` unchanged, logs one warning for each reserved word it holds,
\* does not fire confirm, and the loop goes on to the next prompt.
C3_ReservedOnlyLine ==
    (/\ Len(query) > 1
     /\ \A i \in 1..Len(query) : query[i] \in {"all", "none", "confirm"})
    => /\ err = ""
       /\ pc = "report"
       /\ selected = prev
       /\ warnings = Cardinality(Range(query))

\* the selection the claim expects of a selecting line: known tokens select,
\* unknown ones are skipped
RECURSIVE C4_Expected(_, _, _)
C4_Expected(sel, tokens, catalog) ==
    IF tokens = <<>> THEN sel
    ELSE IF Known(Head(tokens), catalog)
    THEN C4_Expected(
             SelectToken([sel |-> sel, warns |-> 0, exc |-> "", next |-> "report"],
                         Head(tokens), catalog).sel,
             Tail(tokens), catalog)
    ELSE C4_Expected(sel, Tail(tokens), catalog)

\* C4: on a selecting line, a token naming an unknown shortcode or an
\* unknown category logs a warning and is otherwise ignored: the other
\* tokens are processed and the loop goes on.
C4_UnknownSelectorIgnored ==
    (/\ IsSelectLine(query)
     /\ \E i \in 1..Len(Selectors(query)) : ~Known(Selectors(query)[i], all_emoji))
    => /\ err = ""
       /\ pc = "report"
       /\ warnings >= 1
       /\ selected = C4_Expected(prev, Selectors(query), all_emoji)

\* C5 as stated: on the line `unselect <token>`, the forms <name> and
\* emoji:<name> both remove the selected shortcode <name>, and nothing else.
C5_UnselectBothForms ==
    (/\ Len(query) = 2
     /\ query[1] = "unselect"
     /\ ~StartsWith(query[2], "pack:")
     /\ NameOf(query[2]) \in KeySet(prev))
    => /\ err = ""
       /\ KeySet(selected) = KeySet(prev) \ {NameOf(query[2])}
       /\ Range(selected) \subseteq Range(prev)

\* C5 as amended: on the line `unselect <token>`, a token that is a selected
\* shortcode as written is removed, and only it; any other token that is no
\* pack selector, emoji:<name> included, logs one warning and leaves
\* `selected` unchanged.
C5_UnselectBareForm ==
    (/\ Len(query) = 2
     /\ query[1] = "unselect"
     /\ ~StartsWith(query[2], "pack:")
     /\ ~IsReserved(query[2]))
    => /\ err = ""
       /\ pc = "report"
       /\ IF query[2] \in KeySet(prev)
          THEN /\ KeySet(selected) = KeySet(prev) \ {query[2]}
               /\ Range(selected) \subseteq Range(prev)
               /\ Len(selected) = Len(prev) - 1
               /\ warnings = 0
          ELSE /\ selected = prev
               /\ warnings = 1

\* with the whole pack selected, `unselect foo` removed foo and kept bar
C5_Witness ==
    /\ pc = "report"
    /\ query = <<"unselect", "foo">>
    /\ {"foo", "bar"} \subseteq KeySet(prev)
    /\ \A i \in 1..Len(prev) :
          prev[i].key \in {"foo", "bar"} => prev[i].val.category = "stickers"
    /\ "foo" \notin KeySet(selected)
    /\ "bar" \in KeySet(selected)

\* the selection the claim expects of an unselect line
RECURSIVE C6_Expected(_, _, _)
C6_Expected(sel, tokens, catalog) ==
    IF tokens = <<>> THEN sel
    ELSE IF StartsWith(Head(tokens), "pack:")
    THEN C6_Expected(
             SelectSeq(sel, LAMBDA kv : CategoryKey(kv.val) # Drop(Head(tokens), 5)),
             Tail(tokens), catalog)
    ELSE C6_Expected(SelectSeq(sel, LAMBDA kv : kv.key # Head(tokens)),
                     Tail(tokens), catalog)

\* C6: on a line starting with `unselect` every following token is removed
\* from `selected`: a shortcode that is not selected leaves it unchanged, a
\* pack removes the selected emoji of its category, and an unknown pack is a
\* silent no-op; the loop goes on.
C6_UnselectLine ==
    (Len(query) > 1 /\ query[1] = "unselect")
    => /\ err = ""
       /\ pc = "report"
       /\ selected = C6_Expected(prev, Tail(StripReserved(query)), all_emoji)

\* C7: the download loop is entered only from the confirmation prompt, which
\* only the line `confirm` reaches, and only on the answer "", "y" or "Y";
\* any other answer goes back to the selection prompt with `selected` as it
\* was; and nothing is downloaded or recorded outside the download loop.
C7_DownloadOnlyAfterYes ==
    [][ /\ (pc # "download" /\ pc' = "download") =>
              (pc = "confirm" /\ query = <<"confirm">> /\ yn' \in {"", "y", "Y"})
        /\ (pc # "confirm" /\ pc' = "confirm") =>
              (pc = "prompt" /\ query' = <<"confirm">> /\ selected' = selected)
        /\ (pc = "confirm" /\ yn' \notin {"", "y", "Y"}) =>
              (pc' = "prompt" /\ selected' = selected /\ err' = "")
        /\ (pc = "confirm" /\ yn' \in {"", "y", "Y"}) =>
              (pc' = "download" /\ selected' = selected)
        /\ (downloaded' # downloaded \/ packs' # packs \/ idx' # idx) =>
              (pc = "download" /\ yn \in {"", "y", "Y"})
      ]_vars

\* the answer "yes" sent the program back to the prompt, the selection kept
C7_Witness ==
    /\ pc = "prompt"
    /\ yn = "yes"
    /\ selected # <<>>
    /\ query = <<>>
    /\ downloaded = <<>>

\* C8: as the only token of a line, `all` selects exactly the catalog,
\* `none` empties the selection, `confirm` goes to the confirmation prompt
\* and `quit` ends the program with exit code 0, both leaving `selected`
\* alone, and `quit` without any download.
C8_SingleTokenCommands ==
    /\ query = <<"all">> =>
          /\ pc = "report" /\ err = ""
          /\ KeySet(selected) = {all_emoji[i].shortcode : i \in 1..Len(all_emoji)}
          /\ Len(selected) = Cardinality(KeySet(selected))
          /\ \A i \in 1..Len(selected) :
                /\ selected[i].val \in Range(all_emoji)
                /\ selected[i].val.shortcode = selected[i].key
    /\ query = <<"none">> => (pc = "report" /\ err = "" /\ selected = <<>>)
    /\ query = <<"confirm">> => (pc = "confirm" /\ err = "" /\ selected = prev)
    /\ query = <<"quit">> =>
          /\ pc = "exit0" /\ err = ""
          /\ selected = prev
          /\ downloaded = <<>> /\ packs = <<>> /\ written = <<>>

\* `all` replaced a selection that was neither empty nor the whole catalog
C8_Witness ==
    /\ pc = "report"
    /\ query = <<"all">>
    /\ prev # <<>>
    /\ Len(prev) < Len(selected)
    /\ Len(selected) = Len(all_emoji)

-----------------------------------------------------------------------------
(* The download loop *)

\* C9: once the download loop is entered no exception ends the run: a failed
\* download is caught, every selected emoji is visited in turn and the
\* manifests are written.
C9_DownloadLoopContinues ==
    pc = "download" => err = ""

\* the manifest of the emoji's category records the emoji's file
InManifest(pk, emoji) ==
    /\ HasKey(pk, emoji.category)
    /\ HasKey(DictGet(pk, emoji.category).files, emoji.shortcode)

\* C10: a selected emoji whose target file exists is visited without a
\* network call, its manifest entry is recorded, and the loop goes on.
C10_ExistingFileSkipped ==
    pc = "download" =>
       \A i \in 1..Len(selected) :
          (/\ selected[i].key \in existing
           /\ (i <= idx \/ (i = idx + 1 /\ err # "")))
          => /\ err = ""
             /\ InManifest(packs, selected[i].val)
             /\ selected[i].key \notin Range(downloaded)

\* the emoji the download loop has visited: those before idx, and the one
\* the loop was on when an exception ended it
VisitedEmoji ==
    {selected[i].val : i \in {k \in 1..Len(selected) :
                                 k <= idx \/ (k = idx + 1 /\ err # "")}}

\* C11: in the download loop, every category with a visited emoji has a
\* manifest whose `files` has exactly the visited shortcodes of the category
\* as keys, each mapped to shortcode + extension (the first emoji of the
\* category included), and whose `pack` object is set, with the instance's
\* base URL as homepage.
C11_ManifestContents ==
    pc = "download" =>
       /\ KeySet(packs) = {e.category : e \in VisitedEmoji}
       /\ \A i \in 1..Len(packs) :
             /\ KeySet(packs[i].val.files) =
                   {e.shortcode : e \in {v \in VisitedEmoji : v.category = packs[i].key}}
             /\ \A e \in VisitedEmoji :
                   e.category = packs[i].key =>
                      \E original \in BOOLEAN :
                         DictGet(packs[i].val.files, e.shortcode)
                            = emoji_filename(e, original)
             /\ packs[i].val.pack # None

\* C12: the manifests are written only after every selected emoji has been
\* visited; no exception keeps the loop from reaching the writing; and when
\* the program has ended after the writing, one manifest was written for
\* each category that has a selected emoji, the group without category
\* included.
C12_ManifestsWritten ==
    /\ written # <<>> => idx = Len(selected)
    /\ pc = "download" => err = ""
    /\ (pc = "exit0" /\ query = <<>>) =>
          /\ Range(written) = {selected[i].val.category : i \in 1..Len(selected)}
          /\ Len(written) = Cardinality(Range(written))

-----------------------------------------------------------------------------
(* The emoji catalog.  fetched holds the answers to the requests the reads  *)
(* of instance.all_emoji made; cache is what the instance keeps.            *)

\* the request was answered with a status other than 200
IsRequestError(resp) == ~resp.conn /\ resp.status # 200

\* C13: when GET /api/v1/pleroma/emoji of a Pleroma-family instance fails
\* with a request error, no exception leaves all_emoji: a second request is
\* made (GET /api/v1/custom_emojis) and the list is what the Mastodon
\* procedure makes of its answer, empty when that request fails too.
C13_PleromaFallback ==
    (/\ instance.type = "Pleroma"
     /\ fetched # <<>>
     /\ IsRequestError(fetched[1]))
    => /\ err = ""
       /\ Len(fetched) = 2
       /\ cache = [set |-> TRUE, list |-> InstanceMastodon_all_emoji(fetched[2]).list]

\* the listing entry has a shortcode (name) and at least one URL field
WellFormed(type, entry) ==
    CASE type = "Pleroma" -> Truthy(entry.shortcode) /\ Truthy(entry.image_url)
      [] type = "Misskey" -> Truthy(entry.name) /\ Truthy(entry.url)
      [] OTHER            -> /\ Truthy(entry.shortcode)
                             /\ (Truthy(entry.url) \/ Truthy(entry.static_url))

\* the entry has the other fields its variant's normaliser reads
Complete(type, entry) ==
    CASE type = "Pleroma" -> entry.has_tags
      [] type = "Misskey" -> entry.category # Absent
      [] OTHER            -> TRUE

ShortcodeOf(type, entry) ==
    IF type = "Misskey" THEN entry.name ELSE entry.shortcode

ShortcodesOf(type, listing) ==
    [i \in 1..Len(listing) |-> ShortcodeOf(type, listing[i])]

\* C14: when the fetched listing holds a malformed entry (no shortcode or
\* name, or no URL field), the entry is skipped and normalisation is not
\* aborted: the list kept is made of the well-formed entries, in listing
\* order, for each of the three variants.
C14_MalformedSkipped ==
    (/\ fetched # <<>>
     /\ ~fetched[1].conn
     /\ fetched[1].status = 200
     /\ \E i \in 1..Len(fetched[1].json) : ~WellFormed(instance.type, fetched[1].json[i])
     /\ \A i \in 1..Len(fetched[1].json) : Complete(instance.type, fetched[1].json[i]))
    => /\ err = ""
       /\ cache.set
       /\ [i \in 1..Len(cache.list) |-> cache.list[i].shortcode]
             = ShortcodesOf(instance.type,
                   SelectSeq(fetched[1].json,
                             LAMBDA entry : WellFormed(instance.type, entry)))

-----------------------------------------------------------------------------
(* The Pleroma-family label.  At pc = "classified" the last of probes is    *)
(* the answer the constructor's GET /api/v1/instance got.                   *)

\* the answer lists akkoma_api in pleroma.metadata.features
HasAkkomaMarker(body) ==
    body.pleroma /\ body.metadata /\ "akkoma_api" \in body.features

\* C15: a constructed Pleroma-family instance reports Akkoma when the
\* /api/v1/instance answer lists akkoma_api in pleroma.metadata.features,
\* and Pleroma when the answer has the key pleroma but no such flag or no
\* such metadata path.
C15_AkkomaMarker ==
    (pc = "classified" /\ err = "" /\ instance.type = "Pleroma") =>
       /\ Len(probes) = 2
       /\ HasAkkomaMarker(probes[2].json) => instance.software = "Akkoma"
       /\ (probes[2].json.pleroma /\ ~HasAkkomaMarker(probes[2].json))
             => instance.software = "Pleroma"

\* an instance whose answer carries the marker was built as Akkoma
C15_Witness ==
    /\ pc = "classified"
    /\ err = ""
    /\ instance.type = "Pleroma"
    /\ instance.software = "Akkoma"
    /\ Len(probes) = 2
    /\ probes[2].json = AkkomaBody

-----------------------------------------------------------------------------
(* URL normalisation.  Past pc = "start" base_url is what get_base_url      *)
(* returned for url; a run that ended at pc = "start" is one it raised in.  *)

\* what follows "scheme://" in a normalised URL
HostPart(b) ==
    IF StartsWith(b, "https://") THEN Drop(b, 8)
    ELSE IF StartsWith(b, "http://") THEN Drop(b, 7)
    ELSE b

\* C16: get_base_url raises for every string with a scheme other than http
\* and https; for a string without scheme it returns "https://" followed by
\* the host, taken from the authority or else from the first path segment;
\* it raises when neither gives a host, so what it returns always names a
\* host; and no request is made unless it returned.
C16_NormalizationFailures ==
    /\ urlparse(url).scheme \notin {"", "http", "https"} => pc = "start"
    /\ pc = "start" => probes = <<>>
    /\ pc # "start" =>
          /\ err # "ValueError: Not an HTTP/HTTPS URL"
          /\ urlparse(url).scheme = "" => StartsWith(base_url, "https://")
          /\ HostPart(base_url) # ""

\* C17: what get_base_url returns is scheme://host, without path, query,
\* fragment or credentials, and get_base_url returns it unchanged when
\* applied to it again.
C17_BaseUrlShape ==
    pc # "start" =>
       /\ StartsWith(base_url, "https://") \/ StartsWith(base_url, "http://")
       /\ FindAny(HostPart(base_url), {"/", "?", "#", "@"}) = 0
       /\ get_base_url(base_url) = [exc |-> "", value |-> base_url]

\* C18: every emoji of a normalised list, whatever the variant, has a
\* non-empty shortcode and a non-empty original_url or static_url; a
\* Mastodon entry with no URL field is not in the list, and one with only
\* static_url is in it with an empty original_url.
C18_EmojiHasShortcodeAndUrl ==
    /\ \A i \in 1..Len(cache.list) :
          /\ Truthy(cache.list[i].shortcode)
          /\ Truthy(cache.list[i].original_url) \/ Truthy(cache.list[i].static_url)
    /\ (cache.set /\ instance.type = "Mastodon") =>
          \A k \in 1..Len(fetched[1].json) :
             LET entry == fetched[1].json[k]
             IN  Truthy(entry.shortcode) =>
                    /\ (~Truthy(entry.url) /\ ~Truthy(entry.static_url)) =>
                          \A i \in 1..Len(cache.list) :
                             cache.list[i].shortcode # entry.shortcode
                    /\ (~Truthy(entry.url) /\ Truthy(entry.static_url)) =>
                          \E i \in 1..Len(cache.list) :
                             /\ cache.list[i].shortcode = entry.shortcode
                             /\ cache.list[i].original_url = ""
                             /\ cache.list[i].static_url = entry.static_url

-----------------------------------------------------------------------------
(* The selection and the catalog *)

\* C20: whatever lines and confirmation answers were read, every key of
\* `selected` is the shortcode of an emoji of the fetched catalog and maps
\* to the catalog's emoji of that shortcode; the keys are distinct, so the
\* size reported is at most the number of distinct catalog shortcodes.
C20_SelectedWithinCatalog ==
    /\ \A i \in 1..Len(selected) :
          /\ selected[i].val \in Range(all_emoji)
          /\ selected[i].val.shortcode = selected[i].key
          /\ selected[i].val = DictGet(all_emoji_shortcodes(all_emoji), selected[i].key)
    /\ Len(selected) = Cardinality(KeySet(selected))
    /\ Len(selected) <= Cardinality({all_emoji[i].shortcode : i \in 1..Len(all_emoji)})

\* after a refused confirmation, a line with an unknown token was processed
\* and part of the catalog is selected
C20_Witness ==
    /\ pc = "report"
    /\ yn = "yes"
    /\ warnings >= 1
    /\ selected # <<>>
    /\ selected # prev
    /\ Len(selected) < Len(all_emoji)

-----------------------------------------------------------------------------
(* The cached catalog *)

\* C19: over any sequence of reads of all_emoji on one instance at most one
\* request is made to the emoji endpoint (one more for the Pleroma
\* fallback), and every read returns the list the first read computed.
C19_ComputedOnce ==
    /\ Len(fetched) <= (IF instance.type = "Pleroma" THEN 2 ELSE 1)
    /\ (accesses >= 1 /\ err = "") =>
          /\ cache.set
          /\ fetched # <<>>
          /\ cache.list = fetch_all_emoji(instance, fetched[1]).list
          /\ all_emoji = cache.list

\* the list was read three times and fetched once
C19_Witness ==
    /\ accesses = 3
    /\ err = ""
    /\ Len(fetched) = 1
    /\ cache.set
    /\ all_emoji # <<>>

-----------------------------------------------------------------------------
(* The Pleroma constructor.  Once the Pleroma probe has matched (first of   *)
(* probes), the second of probes is the answer to the constructor's own     *)
(* GET /api/v1/instance.                                                    *)

\* C21: when the request the Pleroma constructor makes after a successful
\* probe ends in a request error, no exception leaves the constructor: the
\* instance is built, as the base variant Pleroma.
C21_ConstructorSwallowsError ==
    (/\ pc \in {"construct", "classified"}
     /\ instance_types[ti] = "Pleroma"
     /\ Len(probes) = 2
     /\ IsRequestError(probes[2]))
    => /\ err = ""
       /\ pc = "classified"
       /\ instance.type = "Pleroma"
       /\ instance.software = "Pleroma"

====
